---------------------------- MODULE Spec2Model ----------------------------
(***************************************************************************)
(* A model of caltrix-bot (src/index.cjs): the /caltrix sync handler, the  *)
(* Notion month query with its page-title cache, the renderer and the      *)
(* persistent-message upsert (ensureScheduleMessage / publishSchedule).    *)
(*                                                                         *)
(* Every `await` of the source is a suspension point: the code between two *)
(* awaits is one atomic action, and the handlers of different interactions *)
(* interleave at these points only (Node's run-to-completion).             *)
(***************************************************************************)
EXTENDS Integers, Sequences, FiniteSets, TLC

\* ------------------------------------------------------------------ bounds
MaxInteractions == 2    \* sync interactions handled in one run
MaxCalls == 3           \* direct publishSchedule calls made in one run
MaxQueries == 2         \* direct queryNotionForMonth calls made in one run
MaxMsgs == 3            \* messages the destination ever holds
MaxPage == 3            \* raw records in one result list, the query called on its own
MaxCallPage == 2        \* raw records in one result list, publishSchedule called on its own
MaxResolves == 2         \* direct resolveRelationNames calls made in one run

\* null / undefined of a string-valued place, of a timestamp and of a message id.
Null == "null"
NoDate == -1
NoMsg == 0
\* pageTitleCache.has(id) is false.
NotCached == "<not cached>"

\* --------------------------------------------------------------- calendar
\* A timestamp is a calendar day counted in 31-day month slots, which keeps
\* the order of year, month and day: what `new Date(...)` values compare by.
SlotsPerMonth == 31
MonthsPerYear == 12

\* new Date(Y, monthIndex, day): the month index may lie outside 0..11 and
\* is normalised into the year (index 12 is January of the next year, -1 is
\* December of the year before).
DateCtor(Y, monthIndex, day) ==
    LET total == Y * MonthsPerYear + monthIndex
        yy    == total \div MonthsPerYear
        mm    == total % MonthsPerYear
    IN  (yy * MonthsPerYear + mm) * SlotsPerMonth + (day - 1)

getFullYear(ts) == (ts \div SlotsPerMonth) \div MonthsPerYear
getMonth(ts)    == (ts \div SlotsPerMonth) % MonthsPerYear
getDate(ts)     == (ts % SlotsPerMonth) + 1

\* monthKeyFromDate: "YYYY-MM" as the pair <<Y, M>>, M in 1..12.
monthKeyFromDate(ts) == <<getFullYear(ts), getMonth(ts) + 1>>

\* The mutant: the end is the start of the month after the next.
monthStartEnd_LateEnd(monthKey) ==
    [start |-> DateCtor(monthKey[1], monthKey[2] - 1, 1),
     end   |-> DateCtor(monthKey[1], monthKey[2] + 1, 1)]

monthStartEnd(monthKey) ==
    [start |-> DateCtor(monthKey[1], monthKey[2] - 1, 1),
     end   |-> DateCtor(monthKey[1], monthKey[2], 1)]

MonthLong == <<"January", "February", "March", "April", "May", "June", "July",
               "August", "September", "October", "November", "December">>
MonthShortUpper == <<"JAN", "FEB", "MAR", "APR", "MAY", "JUN", "JUL",
                     "AUG", "SEP", "OCT", "NOV", "DEC">>

fmtMonthTitle(monthKey) ==
    MonthLong[getMonth(DateCtor(monthKey[1], monthKey[2] - 1, 1)) + 1]
        \o " " \o ToString(monthKey[1])

\* The wall clock of the process at the time of a sync.
Now == DateCtor(2026, 11, 14)

\* ------------------------------------------------------- tenant configuration
\* guild-config.json.  Written by /caltrix setup and /caltrix notion only; the
\* sync pipeline reads it.  g3 has thisMonth but no database; g4 has no entry
\* (every field read through `?.` is undefined).
GuildIds == {"g1", "g2", "g3", "g4"}
GuildConfig ==
    [g \in GuildIds |->
        CASE g = "g1" -> [staffChannelId |-> "c1",
                          threads |-> [thisMonth |-> "t1", lastMonth |-> "t2", nextMonth |-> Null],
                          notion |-> [databaseId |-> "db1"]]
          [] g = "g2" -> [staffChannelId |-> "c2",
                          threads |-> [thisMonth |-> "t3", lastMonth |-> Null, nextMonth |-> Null],
                          notion |-> [databaseId |-> "db2"]]
          [] g = "g3" -> [staffChannelId |-> "c3",
                          threads |-> [thisMonth |-> "t4", lastMonth |-> Null, nextMonth |-> Null],
                          notion |-> [databaseId |-> Null]]
          [] OTHER    -> [staffChannelId |-> Null,
                          threads |-> [thisMonth |-> Null, lastMonth |-> Null, nextMonth |-> Null],
                          notion |-> [databaseId |-> Null]]]

getGuildCfg(guildId) == GuildConfig[guildId]

\* The mutant: no configuration is refused.
requireGuildCfg_Lenient(guildId) == Null

\* requireGuildCfg: the error it throws, or Null when the configuration is complete.
requireGuildCfg(guildId) ==
    LET cfg == getGuildCfg(guildId) IN
    IF cfg.staffChannelId = Null \/ cfg.threads.thisMonth = Null
         THEN "This server is not configured. Run /caltrix setup first."
    ELSE IF cfg.notion.databaseId = Null
         THEN "Notion DB not configured. Run /caltrix notion set <database_link> first."
    ELSE Null

ScopeKeys == {"lastMonth", "thisMonth", "nextMonth"}
MetaKeys == {<<g, s>> : g \in GuildIds, s \in ScopeKeys}
ThreadIds == {"t1", "t2", "t3", "t4"}
ChannelIds == {"c1", "c2", "c3"}

\* ------------------------------------------------------------ notion parsing
\* A property of a raw page is a record with its type; type "absent" is a
\* property the page does not have.
dateStart(prop) ==
    IF prop.type # "date" THEN NoDate ELSE prop.start

relationIds(prop) ==
    IF prop.type # "relation" THEN <<>> ELSE prop.relation

titlePlain(prop) ==
    IF prop.type # "title" THEN "" ELSE prop.title

selectPlain(prop) ==
    IF prop.type # "select" THEN "" ELSE prop.select

richTextPlain(prop) ==
    IF prop.type # "rich_text" THEN "" ELSE prop.rich_text

urlPlain(prop) ==
    IF prop.type # "url" THEN "" ELSE prop.url

\* ------------------------------------------------------------ the source
\* The raw pages the source database may put into a query result.  The code
\* trusts none of it: a page may lack its date, carry it under another type,
\* lie outside the window asked for, and the pages may come in any order.
PageIds == {"p1", "p2", "p3", "p4", "p5"}

Absent == [type |-> "absent"]
TitleProp(t)  == [type |-> "title", title |-> t]
SelectProp(n) == [type |-> "select", select |-> n]
DateProp(ts)  == [type |-> "date", start |-> ts]
RelProp(ids)  == [type |-> "relation", relation |-> ids]

RawPage(title, type, date, artist, member) ==
    [Title |-> title, Type |-> type, Date |-> date, Time |-> Absent,
     Location |-> Absent, Link |-> Absent, Artist |-> artist, Member |-> member]

AlbumX == RawPage(TitleProp("Album X"), SelectProp("Release"),
                  DateProp(DateCtor(2026, 11, 3)), RelProp(<<>>), Absent)
Showcase == RawPage(TitleProp("Showcase"), SelectProp("Event"),
                    DateProp(DateCtor(2026, 11, 1)), RelProp(<<"p1">>), Absent)
Untitled == RawPage(TitleProp(""), Absent,
                    DateProp(DateCtor(2027, 0, 1)), RelProp(<<"p2", "p1", "p3">>), RelProp(<<"p1">>))
Early == RawPage(TitleProp("Early"), SelectProp("Birthday"),
                 DateProp(DateCtor(2026, 10, 30)), Absent, Absent)
NoDateProp == RawPage(TitleProp("No date"), SelectProp("Event"),
                      Absent, RelProp(<<"p1">>), Absent)
DateUnset == RawPage(TitleProp("Date unset"), SelectProp("Birthday"),
                     DateProp(NoDate), RelProp(<<>>), RelProp(<<"p1">>))
Duo == RawPage(TitleProp("Duo"), SelectProp("Comeback"),
               DateProp(DateCtor(2026, 11, 5)), RelProp(<<"p1", "p2">>), RelProp(<<"p1">>))
DateAsText == RawPage(TitleProp("Date as text"), SelectProp("Comeback"),
                      [type |-> "rich_text", rich_text |-> "Dec 3"], Absent, Absent)

RECURSIVE SeqsUpTo(_, _)
SeqsUpTo(S, n) ==
    IF n = 0 THEN {<<>>}
    ELSE LET shorter == SeqsUpTo(S, n - 1)
         IN  shorter \cup {Append(q, x) : q \in shorter, x \in S}

\* res.results of one query response, as drawn where
\*   - queryNotionForMonth is called on its own: dates in and out of every
\*     window, in every order, relations of up to three ids;
\*   - publishSchedule is called on its own: dated pages and the three kinds
\*     of page without a usable date;
\*   - whole syncs run side by side: no page, or one;
\*   - two queries run side by side: one page that refers to one related
\*     page, or to two related pages and to one of them twice.
QueryResultLists == SeqsUpTo({AlbumX, Showcase, Untitled, Early, NoDateProp}, MaxPage)
CallResultLists == SeqsUpTo({AlbumX, Showcase, NoDateProp, DateUnset, DateAsText}, MaxCallPage)
SyncResultLists == {<<>>, <<Showcase>>}
OverlapResultLists == {<<Showcase>>, <<Duo>>}

\* The titles a referenced page may carry at the time it is fetched ("" is a
\* page without a title-typed property or with an empty title).
PageTitles == {"", "Aria", "Bel"}
CallTitles == {"", "Aria"}
SyncTitles == {"Aria"}

\* ------------------------------------------------------ relation resolution
RelationMax == 2

\* `+${ids.length - max}`
OverflowMarker(n) == "+" \o ToString(n)

Min(a, b) == IF a < b THEN a ELSE b

\* names.join(sep)
RECURSIVE Join(_, _)
Join(names, sep) ==
    IF Len(names) = 0 THEN ""
    ELSE IF Len(names) = 1 THEN names[1]
    ELSE names[1] \o sep \o Join(Tail(names), sep)

\* ----------------------------------------------------------- the query loop
\* The body of queryNotionForMonth after the response: the loop over
\* res.results, suspended wherever getPageTitleCached misses the cache.  q is
\* the loop's position: the page index, the relation being resolved (1 the
\* artist, 2 the member), the position in its sliced ids, the names so far,
\* the finished artist names, the items pushed, and the page id it waits for
\* (Null when it runs or has ended).
QueryStart(results) ==
    [results |-> results, idx |-> 1, fld |-> 1, pos |-> 1, names |-> <<>>,
     artistNames |-> <<>>, items |-> <<>>, need |-> Null, hits |-> {}]

NormalizedItem(p, artistNames, memberNames) ==
    [title      |-> IF titlePlain(p.Title) # "" THEN titlePlain(p.Title) ELSE "(Untitled)",
     type       |-> selectPlain(p.Type),
     dateObj    |-> dateStart(p.Date),
     timeText   |-> IF p.Time.type = "rich_text" THEN richTextPlain(p.Time) ELSE "",
     location   |-> selectPlain(p.Location),
     link       |-> urlPlain(p.Link),
     artistText |-> Join(artistNames, ", "),
     memberText |-> Join(memberNames, ", ")]

NextPage(q) ==
    [q EXCEPT !.idx = @ + 1, !.fld = 1, !.pos = 1, !.names = <<>>, !.artistNames = <<>>]

\* The mutant: no page is skipped.
SkipsPage_Never(p) == FALSE

\* const ds = dateStart(p[NOTION_PROPS.date]); if (!ds) continue;
SkipsPage(p) == dateStart(p.Date) = NoDate

\* The mutant: every id is resolved, whatever max is.
Slice_All(ids, max) == ids

\* ids.slice(0, max)
Slice(ids, max) == SubSeq(ids, 1, Min(max, Len(ids)))

\* resolveRelationNames from position pos of its loop over the sliced ids,
\* with the names pushed so far: it runs on while getPageTitleCached finds
\* its id in the cache, stops with `need` set where it must await the page,
\* and at the end of the loop pushes the overflow marker and returns.
\* `hits` is history: the ids whose title was taken from the cache.
RECURSIVE resolveRelationNames(_, _, _, _, _)
resolveRelationNames(ids, max, pos, names, cache) ==
    LET sliced == Slice(ids, max) IN
    IF pos <= Len(sliced) THEN
        LET id == sliced[pos] IN
        IF cache[id] # NotCached
        THEN LET r == resolveRelationNames(ids, max, pos + 1,
                          IF cache[id] # "" THEN Append(names, cache[id]) ELSE names,
                          cache)
             IN  [r EXCEPT !.hits = @ \cup {id}]
        ELSE [pos |-> pos, names |-> names, need |-> id, hits |-> {}]  \* await notionGetPage(id)
    ELSE [pos |-> pos,
          names |-> IF Len(ids) > max
                    THEN Append(names, OverflowMarker(Len(ids) - max))
                    ELSE names,
          need |-> Null, hits |-> {}]

RECURSIVE QueryLoop(_, _)
QueryLoop(q, cache) ==
    IF q.idx > Len(q.results) THEN q
    ELSE
      LET p == q.results[q.idx] IN
      IF SkipsPage(p) THEN QueryLoop(NextPage(q), cache)
      ELSE
        LET ids == relationIds(IF q.fld = 1 THEN p.Artist ELSE p.Member)
            r   == resolveRelationNames(ids, RelationMax, q.pos, q.names, cache)
        IN
        IF r.need # Null
        THEN [q EXCEPT !.pos = r.pos, !.names = r.names, !.need = r.need,
                       !.hits = @ \cup r.hits]
        ELSE IF q.fld = 1
        THEN QueryLoop([q EXCEPT !.fld = 2, !.pos = 1, !.names = <<>>,
                                 !.artistNames = r.names, !.hits = @ \cup r.hits], cache)
        ELSE QueryLoop([NextPage(q) EXCEPT
                           !.items = Append(@, NormalizedItem(p, q.artistNames, r.names)),
                           !.hits = @ \cup r.hits],
                       cache)

\* items.sort((a, b) => a.dateObj - b.dateObj): a stable sort by the date.
RECURSIVE InsertByDate(_, _)
InsertByDate(sorted, x) ==
    IF Len(sorted) = 0 THEN <<x>>
    ELSE IF sorted[Len(sorted)].dateObj <= x.dateObj THEN Append(sorted, x)
    ELSE Append(InsertByDate(SubSeq(sorted, 1, Len(sorted) - 1), x), sorted[Len(sorted)])

RECURSIVE SortPrefix(_, _)
SortPrefix(items, n) ==
    IF n = 0 THEN <<>> ELSE InsertByDate(SortPrefix(items, n - 1), items[n])

\* The mutant: the order of the source is kept.
SortByDate_Unsorted(items) == items

SortByDate(items) == SortPrefix(items, Len(items))

\* ----------------------------------------------------------------- renderer
\* The glyphs and separators of the source are written in ASCII here: the
\* cake, bell, disc and pin glyphs, " -- " for the long dash, " * " for the
\* bullet and " . " for the middle dot.
Emoji(type) ==
    CASE type = "Birthday" -> "<cake> "
      [] type = "Comeback" -> "<bell> "
      [] type = "Release"  -> "<disc> "
      [] type = "Event"    -> "<pin> "
      [] OTHER             -> ""

\* String(n).padStart(2, "0")
PadStart2(n) == IF n < 10 THEN "0" \o ToString(n) ELSE ToString(n)

fmtLine(evt) ==
    LET d   == evt.dateObj
        mon == MonthShortUpper[getMonth(d) + 1]
        day == PadStart2(getDate(d))
        timePart == IF evt.timeText # "" THEN " | " \o evt.timeText ELSE ""
        metaParts == (IF evt.artistText # "" THEN <<evt.artistText>> ELSE <<>>)
                  \o (IF evt.memberText # "" THEN <<evt.memberText>> ELSE <<>>)
                  \o (IF evt.location # "" THEN <<evt.location>> ELSE <<>>)
        meta == IF Len(metaParts) > 0 THEN " -- " \o Join(metaParts, " * ") ELSE ""
        link == IF evt.link # "" THEN " . " \o evt.link ELSE ""
    IN  "[" \o mon \o " " \o day \o timePart \o "] " \o Emoji(evt.type)
        \o evt.title \o meta \o link

EmptyBody == "_No upcoming entries._"

buildEmbed(monthKey, events, tzLabel) ==
    [title       |-> "Schedule -- " \o fmtMonthTitle(monthKey),
     description |-> IF Len(events) > 0
                     THEN Join([i \in 1..Len(events) |-> fmtLine(events[i])], "\n")
                     ELSE EmptyBody,
     footer      |-> "Synced from Notion * " \o tzLabel]

\* -------------------------------------------------------------------- state
Slots == {1, 2}          \* handlers that may be in flight at the same time

\* History kept in a handler's record: `late`, the slots whose query began
\* while the handler's page request was in flight, and `earlyIds`, the ids
\* whose cached title was requested before the handler's query began.
VARIABLES
    h,               \* per slot: the position and the locals of an interaction handler
    meta,            \* meta.json: metaKey -> messageId (NoMsg: no entry)
    msgs,            \* the destination's messages; a message's id is its index
    pageTitleCache,  \* the module-level Map: page id -> title (NotCached: no entry)
    started,         \* interactions and direct calls started so far
    overlap,         \* history: two publishSchedule calls were in progress at once
    stale            \* history: the keys whose stored message once failed to fetch

vars == <<h, meta, msgs, pageTitleCache, started, overlap, stale>>

Placeholder == "Initializing schedule..."

\* What one publishSchedule call did to the world (history, reset per call).
\* The counters count the requests issued; the flags record the responses
\* that were failures, and reusedEarly that the call took from the cache a
\* title whose request had been issued before the call began.
NoEffects ==
    [queries |-> 0, clears |-> 0, getPages |-> [p \in PageIds |-> 0], channelFetches |-> 0,
     messageFetches |-> 0, sends |-> 0, edits |-> 0, saves |-> 0,
     queryNotOk |-> FALSE, pageNotOk |-> FALSE, unreachable |-> FALSE, fetchFailed |-> FALSE,
     reusedEarly |-> FALSE]

Idle ==
    [pc |-> "idle", entry |-> Null, guildId |-> Null, channelId |-> Null, scope |-> Null, plan |-> <<>>,
     deferred |-> FALSE, replies |-> <<>>, counts |-> <<>>, err |-> Null,
     threadId |-> Null, databaseId |-> Null, monthKey |-> <<0, 0>>, metaKey |-> <<Null, Null>>,
     tzLabel |-> Null, q |-> QueryStart(<<>>), events |-> <<>>, metaSnap |-> [k \in MetaKeys |-> NoMsg],
     filter |-> [on_or_after |-> 0, before |-> 0], ids |-> <<>>, max |-> 0,
     late |-> {}, earlyIds |-> {},
     msg |-> NoMsg, ret |-> -1, fx |-> NoEffects, ran |-> <<>>]

Init ==
    /\ h = [i \in Slots |-> Idle]
    /\ meta = [k \in MetaKeys |-> NoMsg]
    /\ msgs = <<>>
    /\ pageTitleCache = [p \in PageIds |-> NotCached]
    /\ started = 0
    /\ overlap = FALSE
    /\ stale = {}

\* The positions at which a handler is inside publishSchedule.
PublishPcs == {"dbquery", "getpage", "chfetch", "msgfetch", "send", "edit"}

InPublish(hr) == hr.pc \in PublishPcs

\* --------------------------------------------------------------- the handler
\* The month of a scope, as the sync branch computes it from `now`.
ScopeMonth(scopeKey) ==
    CASE scopeKey = "lastMonth" ->
            monthKeyFromDate(DateCtor(getFullYear(Now), getMonth(Now) - 1, 1))
      [] scopeKey = "nextMonth" ->
            monthKeyFromDate(DateCtor(getFullYear(Now), getMonth(Now) + 1, 1))
      [] OTHER -> monthKeyFromDate(Now)

\* The mutant: this month is published first.
ScopePlan_ThisFirst(scope) ==
    CASE scope = "all"  -> <<"thisMonth", "lastMonth", "nextMonth">>
      [] scope = "last" -> <<"lastMonth">>
      [] scope = "next" -> <<"nextMonth">>
      [] OTHER          -> <<"thisMonth">>

\* The scope publishes a sync runs, in the order it awaits them.
ScopePlan(scope) ==
    CASE scope = "all"  -> <<"lastMonth", "thisMonth", "nextMonth">>
      [] scope = "last" -> <<"lastMonth">>
      [] scope = "next" -> <<"nextMonth">>
      [] OTHER          -> <<"thisMonth">>

ScopeLabel(scopeKey) ==
    CASE scopeKey = "lastMonth" -> "last"
      [] scopeKey = "nextMonth" -> "next"
      [] OTHER -> "this"

MonthKeyText(mk) == ToString(mk[1]) \o "-" \o PadStart2(mk[2])

\* The text of the final editReply.
SyncedText(scope, counts) ==
    IF scope = "all"
    THEN "Synced. Last: " \o ToString(counts[1]) \o ". This: " \o ToString(counts[2])
         \o ". Next: " \o ToString(counts[3]) \o "."
    ELSE "Synced " \o ScopeLabel(ScopePlan(scope)[1]) \o " month ("
         \o MonthKeyText(ScopeMonth(ScopePlan(scope)[1])) \o "): " \o ToString(counts[1]) \o "."

\* ---------------------------------------------------------------- responses
\* The non-2xx responses of the source: status and the body's message.
NotionErrors ==
    { [status |-> 404, message |-> "Could not find database with ID: db"],
      [status |-> 400, message |-> "Could not find database with ID: db"],
      [status |-> 500, message |-> "Internal Server Error"] }

\* notionRequest: `Notion API ${res.status}: ${data.message}`
NotionErrorText(e) == "Notion API " \o ToString(e.status) \o ": " \o e.message

DiscordErrors == {"Missing Access"}

ThreadNotFound(threadId) == "Thread not found or no access: " \o threadId

\* String.prototype.includes
Includes(str, needle) ==
    \E k \in 1..(Len(str) - Len(needle) + 1) : SubSeq(str, k, k + Len(needle) - 1) = needle

\* String.prototype.toLowerCase, over the letters the error texts use.
Upper == "ABCDEFGHIJKLMNOPQRSTUVWXYZ"
Lower == "abcdefghijklmnopqrstuvwxyz"
LowerChar(c) ==
    IF \E k \in 1..Len(Upper) : SubSeq(Upper, k, k) = c
    THEN LET k == CHOOSE k \in 1..Len(Upper) : SubSeq(Upper, k, k) = c IN SubSeq(Lower, k, k)
    ELSE c
RECURSIVE toLowerCase(_)
toLowerCase(str) ==
    IF Len(str) = 0 THEN ""
    ELSE LowerChar(SubSeq(str, 1, 1)) \o toLowerCase(SubSeq(str, 2, Len(str)))

\* The arrow glyph of the source is written "->"; the integration name is
\* the default, "Caltrix".
ShareHint ==
    "Error: I cannot access that Notion database.\n"
    \o "Make sure you opened the database in Notion -> **Share** -> invited the integration **Caltrix**.\n"
    \o "Then try /caltrix sync again."

\* The mutant: the second test is made on the raw text.
IsShareError_CaseSensitive(raw) ==
    Includes(raw, "Notion API 404") \/ Includes(raw, "could not find database")

\* raw.includes("Notion API 404") || raw.toLowerCase().includes("could not find database")
IsShareError(raw) ==
    Includes(raw, "Notion API 404") \/ Includes(toLowerCase(raw), "could not find database")

\* The messages of the errors that reach the catch block: those of
\* notionRequest, of the Discord requests, of publishSchedule for a missing
\* thread and of requireGuildCfg.
ErrorMessages ==
    {NotionErrorText(e) : e \in NotionErrors} \cup DiscordErrors \cup {"Unknown Message"}
    \cup {ThreadNotFound(t) : t \in ThreadIds}
    \cup ({requireGuildCfg(g) : g \in GuildIds} \ {Null})

\* The test of the catch block on each of these messages, computed once.
IsShareErrorOf == [raw \in ErrorMessages |-> IsShareError(raw)]

\* The catch block: one reply (edit of the deferred reply, or a fresh reply).
Catch(hr, raw) ==
    LET msg == IF IsShareErrorOf[raw] THEN ShareHint ELSE "Error: " \o raw IN
    [hr EXCEPT !.pc = "done", !.err = raw, !.late = {}, !.earlyIds = {},
               !.replies = Append(@, [kind |-> IF hr.deferred THEN "editReply" ELSE "reply",
                                      content |-> msg])]

\* queryNotionForMonth up to its await of the response: the window is
\* computed, the cache cleared and the query sent with the window as its
\* date filter (on_or_after start, before end).
EnterQuery(hr, databaseId, monthKey) ==
    [hr EXCEPT !.pc = "dbquery", !.databaseId = databaseId, !.monthKey = monthKey,
               !.filter = [on_or_after |-> monthStartEnd(monthKey).start,
                           before      |-> monthStartEnd(monthKey).end],
               !.q = QueryStart(<<>>), !.events = <<>>, !.late = {}, !.earlyIds = {},
               !.fx = [NoEffects EXCEPT !.clears = 1, !.queries = 1]]

\* The mutant: the guard on the thread id is missing.
EnterPublish_NoGuard(hr, threadId, databaseId, monthKey, metaKey, tzLabel) ==
    EnterQuery([hr EXCEPT !.ret = -1, !.threadId = threadId, !.metaKey = metaKey,
                          !.tzLabel = tzLabel, !.msg = NoMsg,
                          !.metaSnap = [k \in MetaKeys |-> NoMsg]],
               databaseId, monthKey)

\* publishSchedule up to its first await, or its return for an unset thread.
EnterPublish(hr, threadId, databaseId, monthKey, metaKey, tzLabel) ==
    IF threadId = Null
    THEN [hr EXCEPT !.ret = 0, !.fx = NoEffects, !.threadId = threadId, !.metaKey = metaKey]
    ELSE EnterQuery([hr EXCEPT !.ret = -1, !.threadId = threadId, !.metaKey = metaKey,
                               !.tzLabel = tzLabel, !.msg = NoMsg,
                               !.metaSnap = [k \in MetaKeys |-> NoMsg]],
                    databaseId, monthKey)

\* The handler from the end of one scope's publish to its next await: the
\* scopes left in the plan are run in order (an unset last/next thread
\* yields 0 without a call), and after the last one the reply is edited.
RECURSIVE RunPlan(_)
RunPlan(hr) ==
    IF hr.entry # "sync" THEN [hr EXCEPT !.pc = "done"]
    ELSE IF Len(hr.plan) = 0
    THEN [hr EXCEPT !.pc = "done",
                    !.replies = Append(@, [kind |-> "editReply",
                                           content |-> SyncedText(hr.scope, hr.counts)])]
    ELSE
      LET scopeKey == hr.plan[1]
          t        == getGuildCfg(hr.guildId).threads
          rest     == [hr EXCEPT !.plan = Tail(@)]
      IN
      IF scopeKey # "thisMonth" /\ t[scopeKey] = Null
      THEN RunPlan([rest EXCEPT !.counts = Append(@, 0)])
      ELSE
        LET entered == EnterPublish([rest EXCEPT !.ran = Append(@, scopeKey)], t[scopeKey],
                                    getGuildCfg(hr.guildId).notion.databaseId,
                                    ScopeMonth(scopeKey), <<hr.guildId, scopeKey>>, hr.tzLabel)
        IN  IF entered.pc = "dbquery" THEN entered
            ELSE RunPlan([entered EXCEPT !.counts = Append(@, entered.ret)])

\* The mutant: res.ok is not looked at, and the error body has no results.
notionDbQueryNotOk_AsEmpty(hr, e, cache) ==
    [hr EXCEPT !.pc = "chfetch", !.q = QueryLoop(QueryStart(<<>>), cache),
               !.events = <<>>, !.fx.channelFetches = @ + 1]

\* notionRequest under notionDbQuery: if (!res.ok) throw, out of
\* queryNotionForMonth and publishSchedule, into the handler's catch.
notionDbQueryNotOk(hr, e, cache) == Catch(hr, NotionErrorText(e))

\* queryNotionForMonth from a resumption of its loop to its next await: the
\* loop waits for a page, or has ended and the items are sorted and returned,
\* and publishSchedule goes on to fetch the thread.
AfterLoop(hr, ran) ==
    LET q    == [ran EXCEPT !.hits = {}]
        seen == [hr EXCEPT !.fx.reusedEarly = @ \/ (ran.hits \cap hr.earlyIds # {})]
    IN
    IF q.need # Null
    THEN [seen EXCEPT !.pc = "getpage", !.q = q, !.fx.getPages[q.need] = @ + 1, !.late = {}]
    ELSE IF hr.entry = "query"
    THEN [seen EXCEPT !.pc = "done", !.q = q, !.events = SortByDate(q.items),
                      !.late = {}, !.earlyIds = {}]
    ELSE [seen EXCEPT !.pc = "chfetch", !.q = q, !.events = SortByDate(q.items),
                      !.fx.channelFetches = @ + 1, !.late = {}, !.earlyIds = {}]

\* resolveRelationNames called on its own, from a resumption of its loop to
\* its next await or its return (the names are left in q.names).
AfterResolve(hr, r) ==
    IF r.need # Null
    THEN [hr EXCEPT !.pc = "getpage", !.q.pos = r.pos, !.q.names = r.names, !.q.need = r.need,
                    !.fx.getPages[r.need] = @ + 1, !.late = {}]
    ELSE [hr EXCEPT !.pc = "done", !.q.pos = r.pos, !.q.names = r.names, !.q.need = Null]

\* The caller of getPageTitleCached goes on once the title is cached.
Resume(hr, resumed, cache) ==
    IF hr.entry = "resolve"
    THEN AfterResolve(hr, resolveRelationNames(hr.ids, hr.max, resumed.pos, resumed.names, cache))
    ELSE AfterLoop(hr, QueryLoop(resumed, cache))

\* ------------------------------------------------------------------ actions
Scopes == {"this", "last", "next", "all"}
TzLabels == {"KST"}

\* A slot is taken in order: the second one only while the first is busy.
CanStart(i, max) ==
    /\ started < max
    /\ h[i].pc = "idle"
    /\ \A j \in Slots : j < i => h[j].pc # "idle"

Others(i) == Slots \ {i}

\* What a step of slot i that may enter publishSchedule leaves behind.
Step(i, hr, cache) ==
    /\ h' = [k \in Slots |->
               IF k = i THEN hr
               ELSE IF hr.pc = "dbquery"
               THEN [h[k] EXCEPT !.earlyIds = {},
                                 !.late = IF h[k].pc = "getpage" THEN @ \cup {i} ELSE {}]
               ELSE h[k]]
    /\ pageTitleCache' = cache
    /\ overlap' = (overlap \/ (hr.pc = "dbquery" /\ \E j \in Others(i) : InPublish(h[j])))

\* pageTitleCache.clear() of an entered queryNotionForMonth.
Cleared(hr) == IF hr.pc = "dbquery" THEN [p \in PageIds |-> NotCached] ELSE pageTitleCache

\* interactionCreate with /caltrix sync: the handler up to its first await.
Interaction(i, guildId, channelId, scope, tz) ==
    /\ CanStart(i, MaxInteractions)
    /\ started' = started + 1
    /\ LET hr  == [Idle EXCEPT !.entry = "sync", !.guildId = guildId, !.channelId = channelId,
                               !.scope = scope,
                               !.tzLabel = tz]
           bad == requireGuildCfg(guildId)
       IN
       h' = [h EXCEPT ![i] =
                IF bad # Null THEN Catch(hr, bad)
                ELSE IF channelId # getGuildCfg(guildId).staffChannelId
                THEN [hr EXCEPT !.pc = "done",
                        !.replies = <<[kind |-> "reply",
                                       content |-> "Use this command in the configured staff channel."]>>]
                ELSE [hr EXCEPT !.pc = "deferring", !.plan = ScopePlan(scope)]]
    /\ UNCHANGED <<meta, msgs, pageTitleCache, overlap, stale>>

\* deferReply resolved: the first scope of the plan is run.
Deferred(i) ==
    /\ h[i].pc = "deferring"
    /\ LET hr == RunPlan([h[i] EXCEPT !.deferred = TRUE]) IN Step(i, hr, Cleared(hr))
    /\ UNCHANGED <<meta, msgs, started, stale>>

\* publishSchedule called on its own, with arguments of the caller's choice.
CallPublish(i, threadId, monthKey, metaKey) ==
    /\ CanStart(i, MaxCalls)
    /\ started' = started + 1
    /\ LET entered == EnterPublish([Idle EXCEPT !.entry = "publish"], threadId, "db1",
                                   monthKey, metaKey, "KST")
           hr == IF entered.pc = "dbquery" THEN entered ELSE RunPlan(entered)
       IN  Step(i, hr, Cleared(hr))
    /\ UNCHANGED <<meta, msgs, stale>>

\* queryNotionForMonth called on its own.
CallQuery(i, databaseId, monthKey) ==
    /\ CanStart(i, MaxQueries)
    /\ started' = started + 1
    /\ LET hr == EnterQuery([Idle EXCEPT !.entry = "query"], databaseId, monthKey)
       IN  Step(i, hr, Cleared(hr))
    /\ UNCHANGED <<meta, msgs, stale>>

\* resolveRelationNames called on its own; the cache is the module's, as the
\* calls before left it.
CallResolve(i, ids, max) ==
    /\ CanStart(i, MaxResolves)
    /\ started' = started + 1
    /\ h' = [h EXCEPT ![i] =
               AfterResolve([Idle EXCEPT !.entry = "resolve", !.ids = ids, !.max = max],
                            resolveRelationNames(ids, max, 1, <<>>, pageTitleCache))]
    /\ UNCHANGED <<meta, msgs, pageTitleCache, overlap, stale>>

\* The response of the database query: a non-2xx one throws out of
\* publishSchedule; otherwise the loop over res.results starts.
DbQueryFails(i, e) ==
    /\ h[i].pc = "dbquery"
    /\ h' = [h EXCEPT ![i] = notionDbQueryNotOk([h[i] EXCEPT !.fx.queryNotOk = TRUE], e,
                                                pageTitleCache)]
    /\ UNCHANGED <<meta, msgs, pageTitleCache, started, overlap, stale>>

DbQueryReturns(i, results) ==
    /\ h[i].pc = "dbquery"
    /\ h' = [h EXCEPT ![i] = AfterLoop(h[i], QueryLoop(QueryStart(results), pageTitleCache))]
    /\ UNCHANGED <<meta, msgs, pageTitleCache, started, overlap, stale>>

\* The response of notionGetPage inside getPageTitleCached.
GetPageFails(i, e) ==
    /\ h[i].pc = "getpage"
    /\ h' = [h EXCEPT ![i] = Catch([h[i] EXCEPT !.fx.pageNotOk = TRUE], NotionErrorText(e))]
    /\ UNCHANGED <<meta, msgs, pageTitleCache, started, overlap, stale>>

GetPageReturns(i, title) ==
    /\ h[i].pc = "getpage"
    /\ LET q     == h[i].q
           cache == [pageTitleCache EXCEPT ![q.need] = title]
           resumed == [q EXCEPT !.need = Null, !.pos = @ + 1,
                                !.names = IF title # "" THEN Append(@, title) ELSE @]
       IN  /\ pageTitleCache' = cache
           /\ h' = [k \in Slots |->
                      IF k = i THEN Resume([h[i] EXCEPT !.earlyIds = @ \ {q.need}], resumed, cache)
                      ELSE IF h[k].pc \notin {"dbquery", "getpage"} THEN h[k]
                      ELSE [h[k] EXCEPT !.earlyIds = IF k \in h[i].late THEN @ \cup {q.need}
                                                     ELSE @ \ {q.need}]]
    /\ UNCHANGED <<meta, msgs, started, overlap, stale>>

\* The response of discord.channels.fetch; on success ensureScheduleMessage
\* reads meta.json and fetches the stored message or sends a new one.
ChannelFetchFails(i, e) ==
    /\ h[i].pc = "chfetch"
    /\ h' = [h EXCEPT ![i] = Catch([h[i] EXCEPT !.fx.unreachable = TRUE], e)]
    /\ UNCHANGED <<meta, msgs, pageTitleCache, started, overlap, stale>>

ChannelFetchNull(i) ==
    /\ h[i].pc = "chfetch"
    /\ h' = [h EXCEPT ![i] = Catch([h[i] EXCEPT !.fx.unreachable = TRUE],
                                   ThreadNotFound(h[i].threadId))]
    /\ UNCHANGED <<meta, msgs, pageTitleCache, started, overlap, stale>>

ensureScheduleMessage(hr, loaded) ==
    IF loaded[hr.metaKey] # NoMsg
    THEN [hr EXCEPT !.pc = "msgfetch", !.metaSnap = loaded, !.fx.messageFetches = @ + 1]
    ELSE [hr EXCEPT !.pc = "send", !.metaSnap = loaded, !.fx.sends = @ + 1]

ChannelFetchReturns(i) ==
    /\ h[i].pc = "chfetch"
    /\ h' = [h EXCEPT ![i] = ensureScheduleMessage(h[i], meta)]
    /\ UNCHANGED <<meta, msgs, pageTitleCache, started, overlap, stale>>

\* The stored message can be fetched at all: it is a message of the thread
\* fetched from.
Fetchable(hr) ==
    LET id == hr.metaSnap[hr.metaKey] IN
    id \in 1..Len(msgs) /\ msgs[id].thread = hr.threadId

MessageFetchReturns(i) ==
    /\ h[i].pc = "msgfetch"
    /\ Fetchable(h[i])
    /\ h' = [h EXCEPT ![i] = [@ EXCEPT !.pc = "edit", !.msg = h[i].metaSnap[h[i].metaKey],
                                       !.fx.edits = @ + 1]]
    /\ UNCHANGED <<meta, msgs, pageTitleCache, started, overlap, stale>>

\* The mutant: the failure of the fetch is thrown on.
onFetchFailure_Throws(hr) == Catch(hr, "Unknown Message")

\* catch { /* recreate */ }: ensureScheduleMessage goes on to send.
onFetchFailure(hr) == [hr EXCEPT !.pc = "send", !.fx.sends = @ + 1]

\* The fetch of the stored message fails: the message was deleted, is
\* inaccessible, or the request failed for any other reason.
MessageFetchFails(i) ==
    /\ h[i].pc = "msgfetch"
    /\ h' = [h EXCEPT ![i] = onFetchFailure([h[i] EXCEPT !.fx.fetchFailed = TRUE])]
    /\ stale' = stale \cup {h[i].metaKey}
    /\ UNCHANGED <<meta, msgs, pageTitleCache, started, overlap>>

SendFails(i, e) ==
    /\ h[i].pc = "send"
    /\ h' = [h EXCEPT ![i] = Catch(h[i], e)]
    /\ UNCHANGED <<meta, msgs, pageTitleCache, started, overlap, stale>>

\* The mutant: a mapping with the new record alone is written.
saveCreated_OnlyKey(loaded, metaKey, createdId) ==
    [k \in MetaKeys |-> IF k = metaKey THEN createdId ELSE NoMsg]

\* The mutant: the record of the new message is not written.
saveCreated_NotSaved(loaded, metaKey, createdId) == meta

\* meta[metaKey] = { messageId: created.id }; saveMetaAll(meta), on the
\* mapping this call loaded before its awaits.
saveCreated(loaded, metaKey, createdId) == [loaded EXCEPT ![metaKey] = createdId]

SendReturns(i) ==
    /\ h[i].pc = "send"
    /\ Len(msgs) < MaxMsgs
    /\ LET created == Len(msgs) + 1 IN
       /\ msgs' = Append(msgs, [thread |-> h[i].threadId, content |-> Placeholder,
                                embeds |-> <<>>, key |-> h[i].metaKey])
       /\ meta' = saveCreated(h[i].metaSnap, h[i].metaKey, created)
       /\ h' = [h EXCEPT ![i] = [@ EXCEPT !.pc = "edit", !.msg = created,
                                          !.fx.saves = @ + 1, !.fx.edits = @ + 1]]
    /\ UNCHANGED <<pageTitleCache, started, overlap, stale>>

EditFails(i, e) ==
    /\ h[i].pc = "edit"
    /\ h' = [h EXCEPT ![i] = Catch(h[i], e)]
    /\ UNCHANGED <<meta, msgs, pageTitleCache, started, overlap, stale>>

\* The mutant: the edit carries the embed only, and the text stays.
ApplyEdit_EmbedsOnly(message, hr) ==
    [message EXCEPT !.embeds = <<buildEmbed(hr.monthKey, hr.events, hr.tzLabel)>>]

\* msg.edit({ content: "", embeds: [embed] })
ApplyEdit(message, hr) ==
    [message EXCEPT !.content = "",
                    !.embeds = <<buildEmbed(hr.monthKey, hr.events, hr.tzLabel)>>]

\* The edit resolved: publishSchedule returns events.length, and the handler
\* goes on with its plan.
EditReturns(i) ==
    /\ h[i].pc = "edit"
    /\ msgs' = [msgs EXCEPT ![h[i].msg] = ApplyEdit(@, h[i])]
    /\ LET returned == [h[i] EXCEPT !.ret = Len(h[i].events),
                                    !.counts = Append(@, Len(h[i].events))]
           hr == RunPlan(returned)
       IN  Step(i, hr, Cleared(hr))
    /\ UNCHANGED <<meta, started, stale>>

\* The handler has ended; its slot is free for the next interaction.
Finish(i) ==
    /\ h[i].pc = "done"
    /\ h' = [h EXCEPT ![i] = Idle]
    /\ UNCHANGED <<meta, msgs, pageTitleCache, started, overlap, stale>>

\* The steps of a handler inside publishSchedule, with the responses the
\* source may give drawn from the given sets.
PublishSteps(i, resultLists, titles) ==
    \/ \E e \in NotionErrors : DbQueryFails(i, e)
    \/ \E results \in resultLists : DbQueryReturns(i, results)
    \/ \E e \in NotionErrors : GetPageFails(i, e)
    \/ \E title \in titles : GetPageReturns(i, title)
    \/ \E e \in DiscordErrors : ChannelFetchFails(i, e)
    \/ ChannelFetchNull(i)
    \/ ChannelFetchReturns(i)
    \/ MessageFetchReturns(i)
    \/ MessageFetchFails(i)
    \/ \E e \in DiscordErrors : SendFails(i, e)
    \/ SendReturns(i)
    \/ \E e \in DiscordErrors : EditFails(i, e)
    \/ EditReturns(i)
    \/ Finish(i)

\* The program: sync interactions, handled concurrently.
Next ==
    \/ \E i \in Slots, g \in GuildIds, c \in ChannelIds, sc \in Scopes, tz \in TzLabels :
          Interaction(i, g, c, sc, tz)
    \/ \E i \in Slots : Deferred(i)
    \/ \E i \in Slots : PublishSteps(i, SyncResultLists, SyncTitles)

Spec == Init /\ [][Next]_vars

\* publishSchedule called on its own, one call after another, for one key,
\* with a set and an unset thread.
CallThreads == {Null, "t1"}
CallNext ==
    \/ \E t \in CallThreads : CallPublish(1, t, ScopeMonth("thisMonth"), <<"g1", "thisMonth">>)
    \/ PublishSteps(1, CallResultLists, CallTitles)

CallSpec == Init /\ [][CallNext]_vars

\* queryNotionForMonth called on its own, for the months around a year's end.
QueryMonths == {<<2026, 11>>, <<2026, 12>>, <<2027, 1>>}
QuerySteps(i) ==
    \/ \E e \in NotionErrors : DbQueryFails(i, e)
    \/ \E results \in QueryResultLists : DbQueryReturns(i, results)
    \/ \E e \in NotionErrors : GetPageFails(i, e)
    \/ \E title \in PageTitles : GetPageReturns(i, title)
    \/ Finish(i)
QueryNext ==
    \/ \E mk \in QueryMonths : CallQuery(1, "db1", mk)
    \/ QuerySteps(1)

QuerySpec == Init /\ [][QueryNext]_vars

\* queryNotionForMonth called while another call of it is in progress, as
\* the handlers of two interactions do.
OverlapSteps(i) ==
    \/ \E e \in NotionErrors : DbQueryFails(i, e)
    \/ \E results \in OverlapResultLists : DbQueryReturns(i, results)
    \/ \E e \in NotionErrors : GetPageFails(i, e)
    \/ \E title \in PageTitles : GetPageReturns(i, title)
    \/ Finish(i)
OverlapNext ==
    \/ \E i \in Slots : CallQuery(i, "db1", ScopeMonth("thisMonth"))
    \/ \E i \in Slots : OverlapSteps(i)

OverlapSpec == Init /\ [][OverlapNext]_vars

\* resolveRelationNames called on its own, with relations of no, one, two,
\* three and five ids and a repeated id, and every max up to three.
ResolveIdLists ==
    { <<>>, <<"p1">>, <<"p1", "p1">>, <<"p1", "p2">>, <<"p2", "p1", "p3">>,
      <<"p1", "p2", "p3", "p4", "p5">> }
ResolveMaxes == 0..3
ResolveNext ==
    \/ \E ids \in ResolveIdLists, max \in ResolveMaxes : CallResolve(1, ids, max)
    \/ \E e \in NotionErrors : GetPageFails(1, e)
    \/ \E title \in PageTitles : GetPageReturns(1, title)
    \/ Finish(1)

ResolveSpec == Init /\ [][ResolveNext]_vars

\* =================================================================== claims
Range(seq) == {seq[k] : k \in 1..Len(seq)}

\* The messages ever created for a key.
MsgsOf(k) == {m \in 1..Len(msgs) : msgs[m].key = k}

Newest(S) == CHOOSE m \in S : \A n \in S : n <= m

\* publishSchedule, called with a thread, has returned its count.
Succeeded(hr) ==
    hr.pc = "done" /\ hr.entry = "publish" /\ hr.threadId # Null /\ hr.err = Null

\* The call holds a message: it is about to edit it, or has edited it.
HoldsMessage(hr) == hr.pc = "edit" \/ Succeeded(hr)

UsableDate(p) == p.Date.type = "date" /\ p.Date.start # NoDate

ShownTitle(p) == IF p.Title.type = "title" /\ p.Title.title # "" THEN p.Title.title ELSE "(Untitled)"

UsablePositions(results) == {k \in 1..Len(results) : UsableDate(results[k])}

\* C1: while no fetch of a key's stored message has failed, calls made one
\* after another create at most one message for the key: only a call that
\* finds no record sends, and every call that gets to its edit holds that
\* one message, which is the one the record names.
C1_OneMessageWhileFetchSucceeds ==
    \A k \in MetaKeys : k \notin stale =>
        /\ Cardinality(MsgsOf(k)) <= 1
        /\ \A i \in Slots : h[i].metaKey = k =>
              /\ h[i].fx.sends > 0 => h[i].metaSnap[k] = NoMsg
              /\ HoldsMessage(h[i]) => MsgsOf(k) = {h[i].msg} /\ meta[k] = h[i].msg

\* The third call in a row has edited the message the first one created.
C1_Witness ==
    /\ started = 3 /\ stale = {}
    /\ Succeeded(h[1]) /\ h[1].fx.sends = 0 /\ h[1].msg = 1 /\ Len(msgs) = 1

\* C2: when publishSchedule has returned for a set thread, the message the
\* record of its key names has empty text and one embed, the render of the
\* events of this call, and the count returned is the number of these events,
\* one for each page of this call's response that has a date.
C2_BoundMessageHoldsFreshRender ==
    \A i \in Slots : Succeeded(h[i]) =>
        LET m == meta[h[i].metaKey] IN
        /\ m \in 1..Len(msgs)
        /\ msgs[m].content = ""
        /\ msgs[m].embeds = <<buildEmbed(h[i].monthKey, h[i].events, h[i].tzLabel)>>
        /\ h[i].ret = Len(h[i].events)
        /\ h[i].ret = Cardinality(UsablePositions(h[i].q.results))

\* A later call has edited the existing message with a render of two events.
C2_Witness ==
    /\ started >= 2 /\ Succeeded(h[1]) /\ h[1].fx.sends = 0 /\ h[1].ret = 2
    /\ msgs[1].embeds # <<buildEmbed(h[1].monthKey, <<>>, h[1].tzLabel)>>

\* C3: a call whose fetch of the stored message failed has not thrown for
\* it but sent a new message; once sent, the new message is not the stored
\* one, the record names it, and it is the one edited; and a call that
\* fetched the stored message holds the newest message of the key.
C3_StaleRecordRepaired ==
    \A i \in Slots :
        /\ h[i].fx.fetchFailed =>
              /\ h[i].fx.sends = 1
              /\ h[i].pc \in {"send", "edit", "done"}
              /\ h[i].pc = "send" => h[i].err = Null
              /\ HoldsMessage(h[i]) =>
                    /\ h[i].msg # h[i].metaSnap[h[i].metaKey]
                    /\ meta[h[i].metaKey] = h[i].msg
                    /\ h[i].msg = Newest(MsgsOf(h[i].metaKey))
              /\ Succeeded(h[i]) =>
                    msgs[h[i].msg].embeds = <<buildEmbed(h[i].monthKey, h[i].events, h[i].tzLabel)>>
        /\ (HoldsMessage(h[i]) /\ ~h[i].fx.fetchFailed /\ h[i].fx.sends = 0) =>
              /\ h[i].msg = meta[h[i].metaKey]
              /\ h[i].msg = Newest(MsgsOf(h[i].metaKey))

\* A call after a repair has fetched and edited the second message.
C3_Witness ==
    /\ started = 3 /\ Succeeded(h[1]) /\ ~h[1].fx.fetchFailed /\ h[1].fx.sends = 0
    /\ h[1].msg = 2 /\ h[1].metaKey \in stale

\* C4: a publishSchedule call with an unset thread id returns 0 in the step
\* it is made in, with no request issued, and leaves the cache, the record
\* store and the messages as they were.
C4_UnsetThreadIsNoOp ==
    [][\A i \in Slots :
          (h[i].pc = "idle" /\ h'[i].pc # "idle" /\ h'[i].entry = "publish"
                            /\ h'[i].threadId = Null) =>
              /\ h'[i].pc = "done" /\ h'[i].ret = 0 /\ h'[i].err = Null
              /\ h'[i].fx = NoEffects
              /\ pageTitleCache' = pageTitleCache /\ meta' = meta /\ msgs' = msgs]_vars

\* The call with the unset thread has returned 0, with a name still cached
\* and a record stored by an earlier call.
C4_Witness ==
    /\ h[1].pc = "done" /\ h[1].entry = "publish" /\ h[1].threadId = Null /\ h[1].ret = 0
    /\ pageTitleCache["p1"] = "Aria" /\ meta[<<"g1", "thisMonth">>] = 1

\* C5: a call whose database query got a non-2xx response has ended with
\* the error thrown, no item list, no thread fetched, no message fetched,
\* sent or edited, and no write of the record store.
C5_QueryFailureAborts ==
    \A i \in Slots : h[i].fx.queryNotOk =>
        /\ h[i].pc = "done" /\ h[i].ret = -1
        /\ h[i].err \in {NotionErrorText(e) : e \in NotionErrors}
        /\ h[i].events = <<>> /\ h[i].q.items = <<>>
        /\ h[i].fx.channelFetches = 0 /\ h[i].fx.messageFetches = 0
        /\ h[i].fx.sends = 0 /\ h[i].fx.edits = 0 /\ h[i].fx.saves = 0
        /\ h[i].msg = NoMsg

\* The query of a call failed after an earlier call had published.
C5_Witness ==
    /\ h[1].fx.queryNotOk /\ h[1].pc = "done" /\ h[1].entry = "publish"
    /\ meta[<<"g1", "thisMonth">>] = 1 /\ msgs[1].content = ""

\* C6, as claimed: a call in which the fetch of a referenced page failed is
\* not aborted by it (no error is thrown out of the query).
C6_PageFailureTolerated ==
    \A i \in Slots : h[i].fx.pageNotOk => h[i].err = Null

\* C7, as claimed: when a sync of scope "all" has ended after a thread could
\* not be fetched, the publish of every configured scope has been run.
C7_SiblingScopesStillRun ==
    \A i \in Slots :
        (h[i].entry = "sync" /\ h[i].scope = "all" /\ h[i].pc = "done" /\ h[i].fx.unreachable) =>
            \A sk \in ScopeKeys :
                getGuildCfg(h[i].guildId).threads[sk] # Null => sk \in Range(h[i].ran)

\* C8: the events queryNotionForMonth returns are in non-decreasing order of
\* their dates.
C8_SortedByDate ==
    \A i \in Slots : \A a, b \in 1..Len(h[i].events) :
        a < b => h[i].events[a].dateObj <= h[i].events[b].dateObj

\* The source returned three pages in decreasing order of their dates.
C8_Witness ==
    /\ h[1].pc = "done" /\ h[1].entry = "query" /\ h[1].err = Null
    /\ Len(h[1].events) = 3 /\ Len(h[1].q.results) = 3
    /\ dateStart(h[1].q.results[1].Date) > dateStart(h[1].q.results[2].Date)
    /\ dateStart(h[1].q.results[2].Date) > dateStart(h[1].q.results[3].Date)

\* C9: once the loop over the response has ended, the events are exactly one
\* for each page with a usable date: no event carries the null date or the
\* title of a page without one, every page with a date has its event; and
\* when the call has returned, its count is the number of pages with a date,
\* and the description of the message edited shows the title of each page
\* with a date and of no page without one.
C9_DatelessNeverPublished ==
    \A i \in Slots : h[i].fx.channelFetches = 1 =>
        LET results == h[i].q.results
            events  == h[i].events
            titles  == {events[k].title : k \in 1..Len(events)}
        IN
        /\ \A k \in 1..Len(events) : events[k].dateObj # NoDate
        /\ Len(events) = Cardinality(UsablePositions(results))
        /\ \A k \in 1..Len(results) : UsableDate(results[k]) <=> ShownTitle(results[k]) \in titles
        /\ Succeeded(h[i]) =>
              /\ h[i].ret = Cardinality(UsablePositions(results))
              /\ \A k \in 1..Len(results) :
                    UsableDate(results[k]) <=>
                        Includes(msgs[h[i].msg].embeds[1].description, ShownTitle(results[k]))

\* A page without a date property came before a dated one, which alone was published.
C9_Witness ==
    /\ Succeeded(h[1]) /\ h[1].q.results = <<NoDateProp, AlbumX>> /\ h[1].ret = 1

\* The window of a month key, as the claim states it: from the first day of
\* the month to the first day of the next month, the year's end included.
NextMonthKey(mk) == IF mk[2] = 12 THEN <<mk[1] + 1, 1>> ELSE <<mk[1], mk[2] + 1>>
FirstDay(mk) == (mk[1] * 12 + (mk[2] - 1)) * 31
InWindow(ts, mk) == FirstDay(mk) <= ts /\ ts < FirstDay(NextMonthKey(mk))

QueryReturned(hr) == hr.pc = "done" /\ hr.entry = "query" /\ hr.err = Null

\* Every dated page of the response satisfies the date filter of the request.
HonoursFilter(hr) ==
    \A k \in UsablePositions(hr.q.results) :
        /\ hr.filter.on_or_after <= hr.q.results[k].Date.start
        /\ hr.q.results[k].Date.start < hr.filter.before

\* C10, as claimed: every event queryNotionForMonth returns lies in the
\* window of the month key, whatever pages the source returned.
C10_AlwaysInWindow ==
    \A i \in Slots : QueryReturned(h[i]) =>
        \A k \in 1..Len(h[i].events) : InWindow(h[i].events[k].dateObj, h[i].monthKey)

\* C10, amended: when the dated pages of the response satisfy the date
\* filter the request carried, every event returned lies in the window of
\* the month key.
C10_InWindowWhenFilterHonoured ==
    \A i \in Slots : (QueryReturned(h[i]) /\ HonoursFilter(h[i])) =>
        \A k \in 1..Len(h[i].events) : InWindow(h[i].events[k].dateObj, h[i].monthKey)

\* December's query returned two pages that satisfy its filter, the first
\* of them dated the first day of the window.
C10_Witness ==
    /\ QueryReturned(h[1]) /\ HonoursFilter(h[1]) /\ h[1].monthKey = <<2026, 12>>
    /\ Len(h[1].events) = 2 /\ h[1].events[1].dateObj = FirstDay(<<2026, 12>>)

\* resolveRelationNames, called on its own, has returned its names.
Resolved(hr) == hr.pc = "done" /\ hr.entry = "resolve" /\ hr.err = Null

NonEmpty(t) == t # ""

\* The titles, as cached, of the first max ids of the field, in field order.
TitlesInFieldOrder(ids, max) ==
    [k \in 1..(IF Len(ids) < max THEN Len(ids) ELSE max) |-> pageTitleCache[ids[k]]]

FiveIds == <<"p1", "p2", "p3", "p4", "p5">>

\* C11, as claimed: with max = 2 and five ids there is a 3rd name and it is
\* the literal "+3".
C11_ThirdNameIsMarker ==
    \A i \in Slots : (Resolved(h[i]) /\ h[i].ids = FiveIds /\ h[i].max = 2) =>
        /\ Len(h[i].q.names) <= 3
        /\ Len(h[i].q.names) >= 3
        /\ h[i].q.names[3] = "+3"

\* C11, amended: resolveRelationNames(prop, max) returns at most max + 1
\* names: the non-empty titles of the first max ids in field order, then the
\* marker "+" with the excess count when there are more than max ids; with
\* max = 2 and five ids these are at most 3 names of which the last is
\* "+3", the 3rd when both titles are non-empty.
C11_AtMostMaxPlusOneMarkerLast ==
    \A i \in Slots : Resolved(h[i]) =>
        LET names  == h[i].q.names
            ids    == h[i].ids
            max    == h[i].max
            titled == SelectSeq(TitlesInFieldOrder(ids, max), NonEmpty)
        IN
        /\ Len(names) <= max + 1
        /\ names = IF Len(ids) > max
                   THEN Append(titled, "+" \o ToString(Len(ids) - max))
                   ELSE titled
        /\ (ids = FiveIds /\ max = 2) =>
              /\ Len(names) \in 1..3
              /\ names[Len(names)] = "+3"
              /\ (Len(titled) = 2 => names[3] = "+3")

\* Five ids resolved with max = 2, both titles non-empty: three names.
C11_Witness ==
    /\ Resolved(h[1]) /\ h[1].ids = FiveIds /\ h[1].max = 2
    /\ h[1].q.names = <<"Aria", "Bel", "+3">>

\* C12: in a run in which no two publishSchedule calls overlap, a step
\* changes the record of a key only if it is the step of a call for that key
\* whose send has resolved: the records of all other keys, of the same tenant
\* and of other tenants, stay as they were.
C12_OtherKeysUntouched ==
    [][~overlap' =>
          \A k \in MetaKeys : meta'[k] # meta[k] =>
              \E i \in Slots : h[i].pc = "send" /\ h[i].metaKey = k /\ meta'[k] = h'[i].msg]_vars

\* One sync of scope "all" has created the message of last month and then
\* that of this month, and the record of last month is still the first one.
C12_Witness ==
    /\ ~overlap /\ h[1].pc = "edit" /\ h[1].metaKey = <<"g1", "thisMonth">> /\ h[1].msg = 2
    /\ meta[<<"g1", "lastMonth">>] = 1 /\ meta[<<"g1", "thisMonth">>] = 2

\* The command came in the tenant's staff channel and the tenant has a
\* source database.
SyncAllowed(hr) ==
    LET cfg == GuildConfig[hr.guildId] IN
    /\ cfg.staffChannelId # Null /\ hr.channelId = cfg.staffChannelId
    /\ cfg.notion.databaseId # Null

\* C13: a sync handler has entered publishSchedule for a scope only if the
\* command came in the staff channel and the tenant has a database id and a
\* thread id for that scope, and it is inside publishSchedule with exactly
\* these; a handler that has entered none has issued no request and holds
\* no message; and every message created is in the thread configured for
\* its key.
C13_PublishOnlyWhenConfigured ==
    /\ \A i \in Slots : h[i].entry = "sync" =>
        LET cfg == GuildConfig[h[i].guildId] IN
        /\ \A sk \in Range(h[i].ran) : SyncAllowed(h[i]) /\ cfg.threads[sk] # Null
        /\ InPublish(h[i]) =>
              /\ h[i].ran # <<>>
              /\ h[i].metaKey = <<h[i].guildId, h[i].ran[Len(h[i].ran)]>>
              /\ h[i].threadId = cfg.threads[h[i].metaKey[2]]
              /\ h[i].databaseId = cfg.notion.databaseId
        /\ h[i].ran = <<>> => h[i].fx = NoEffects /\ h[i].msg = NoMsg /\ ~InPublish(h[i])
    /\ \A m \in 1..Len(msgs) :
        /\ msgs[m].thread # Null
        /\ msgs[m].thread = GuildConfig[msgs[m].key[1]].threads[msgs[m].key[2]]
        /\ GuildConfig[msgs[m].key[1]].notion.databaseId # Null

\* A sync of scope "all" has published last month and this month and has
\* not entered publishSchedule for next month, whose thread is unset.
C13_Witness ==
    /\ h[1].pc = "done" /\ h[1].guildId = "g1" /\ h[1].scope = "all" /\ h[1].err = Null
    /\ h[1].ran = <<"lastMonth", "thisMonth">> /\ Len(h[1].counts) = 3 /\ h[1].counts[3] = 0

\* The signature of the failure the catch block rewrites.
HasShareSignature(raw) ==
    LET low == toLowerCase(raw) IN
    \/ \E k \in 1..(Len(raw) - 13) : SubSeq(raw, k, k + 13) = "Notion API 404"
    \/ \E k \in 1..(Len(low) - 22) : SubSeq(low, k, k + 22) = "could not find database"

\* The signature, looked for once in each message an error can carry.
HasShareSignatureOf == [raw \in ErrorMessages |-> HasShareSignature(raw)]

\* C14: a handler in which a failure was raised has ended with exactly one
\* response, a reply when it had not deferred and an edit of the deferred
\* reply otherwise; its text is the instruction to share the database when
\* the error has the signature, and "Error: " with the raw message when not;
\* and no request of the failed call was issued a second time.
C14_OneResponsePerFailure ==
    \A i \in Slots : h[i].err # Null =>
        /\ h[i].pc = "done"
        /\ h[i].err \in ErrorMessages
        /\ Len(h[i].replies) = 1
        /\ h[i].replies[1].kind = (IF h[i].deferred THEN "editReply" ELSE "reply")
        /\ h[i].replies[1].content =
              (IF HasShareSignatureOf[h[i].err] THEN ShareHint ELSE "Error: " \o h[i].err)
        /\ h[i].fx.queries <= 1 /\ h[i].fx.channelFetches <= 1 /\ h[i].fx.messageFetches <= 1
        /\ h[i].fx.sends <= 1 /\ h[i].fx.edits <= 1

\* A failure whose text has the second signature only, after the deferral.
C14_Witness ==
    /\ h[1].pc = "done" /\ h[1].deferred
    /\ h[1].err = "Notion API 400: Could not find database with ID: db"
    /\ h[1].replies = <<[kind |-> "editReply", content |-> ShareHint]>>

\* C15, as claimed: a queryNotionForMonth call has issued at most one
\* get-page request for each page id.
C15_OneRequestPerId ==
    \A i \in Slots : \A p \in PageIds : h[i].fx.getPages[p] <= 1

\* C16, as claimed: no queryNotionForMonth call has taken from the cache a
\* title whose request was issued before the call began.
C16_NamesFetchedAfterBegin ==
    \A i \in Slots : ~h[i].fx.reusedEarly

\* The place of a scope in the order last month, this month, next month.
PlaceInAll(sk) == CASE sk = "lastMonth" -> 1 [] sk = "thisMonth" -> 2 [] OTHER -> 3

\* The publish of a scope of the tenant has completed: a message of its key
\* has been edited.
Published(guildId, sk) ==
    \E m \in 1..Len(msgs) : msgs[m].key = <<guildId, sk>> /\ msgs[m].embeds # <<>>

\* C17: in a sync of scope "all" the publishes are entered in the order last
\* month, this month, next month; while one is in progress the counts of
\* all scopes before it have been returned and the publish of every scope
\* entered before it has edited its message; and the reply is edited only
\* when the three counts are there, with these counts.
C17_AllScopesInOrder ==
    \A i \in Slots : (h[i].entry = "sync" /\ h[i].scope = "all") =>
        LET ran == h[i].ran IN
        /\ \A a, b \in 1..Len(ran) : a < b => PlaceInAll(ran[a]) < PlaceInAll(ran[b])
        /\ InPublish(h[i]) =>
              /\ Len(h[i].counts) = PlaceInAll(ran[Len(ran)]) - 1
              /\ h[i].replies = <<>>
              /\ \A a \in 1..(Len(ran) - 1) : Published(h[i].guildId, ran[a])
        /\ (h[i].pc = "done" /\ h[i].err = Null /\ h[i].deferred) =>
              /\ Len(h[i].counts) = 3
              /\ \A a \in 1..Len(ran) : Published(h[i].guildId, ran[a])
              /\ h[i].replies =
                    <<[kind |-> "editReply",
                       content |-> "Synced. Last: " \o ToString(h[i].counts[1])
                                   \o ". This: " \o ToString(h[i].counts[2])
                                   \o ". Next: " \o ToString(h[i].counts[3]) \o "."]>>

\* The query of this month is awaited after last month's message was edited.
C17_Witness ==
    /\ h[1].scope = "all" /\ h[1].guildId = "g1" /\ h[1].pc = "dbquery"
    /\ h[1].ran = <<"lastMonth", "thisMonth">> /\ h[1].counts = <<1>>
    /\ Published("g1", "lastMonth")

\* A call about to edit the message it created holds it with the record of
\* its key naming it; a call sends only when it found no record or could not
\* fetch the recorded message; and a call fetching a message fetches the one
\* the record names.
RecordHeld ==
    \A i \in Slots :
        /\ (h[i].pc = "edit" /\ h[i].fx.sends = 1) =>
              /\ meta[h[i].metaKey] = h[i].msg
              /\ msgs[h[i].msg].key = h[i].metaKey
              /\ h[i].fx.saves = 1
        /\ (h[i].pc \in {"send", "edit"} /\ h[i].fx.sends = 1) =>
              (h[i].metaSnap[h[i].metaKey] = NoMsg \/ h[i].fx.fetchFailed)
        /\ h[i].pc = "msgfetch" => h[i].metaSnap[h[i].metaKey] = meta[h[i].metaKey]

\* C18: the step in which a call's send resolves leaves the record of the
\* call's key naming the new message, which still shows the placeholder:
\* the record is written before the edit is applied and before the call can
\* return or fail; and in a run in which no two calls overlap the record
\* names the message to the end of the call, return or failure, so that the
\* next call fetches the created message instead of sending another.
C18_RecordBeforeEdit ==
    [][/\ \A i \in Slots : (h[i].pc = "send" /\ h'[i].pc = "edit") =>
              /\ Len(msgs') = Len(msgs) + 1
              /\ h'[i].msg = Len(msgs')
              /\ meta'[h[i].metaKey] = h'[i].msg
              /\ msgs'[h'[i].msg].content = Placeholder /\ msgs'[h'[i].msg].embeds = <<>>
       /\ ~overlap' =>
              /\ RecordHeld'
              /\ \A i \in Slots : (h[i].pc = "edit" /\ h'[i].pc # "edit") =>
                    meta'[h[i].metaKey] = h[i].msg]_vars

\* The edit of the message just created has failed; the record names it.
C18_Witness ==
    /\ h[1].pc = "done" /\ h[1].err \in DiscordErrors /\ h[1].fx.sends = 1 /\ h[1].msg = 1
    /\ meta[<<"g1", "thisMonth">>] = 1 /\ msgs[1].content = Placeholder /\ ~overlap

\* A sync is in progress in the slot: started, and neither replied to nor failed.
InProgress(hr) == hr.entry = "sync" /\ hr.pc \notin {"idle", "done"}

\* C19, as claimed: at most one sync is in progress at any time.
C19_OneSyncAtATime ==
    Cardinality({i \in Slots : InProgress(h[i])}) <= 1

\* C20, as claimed: while an ensureScheduleMessage call is between its read
\* of the store and its write-back, the store is what the call read: no
\* other call has written it.
C20_NoWriteBetweenReadAndWrite ==
    \A i \in Slots : h[i].pc \in {"msgfetch", "send"} => h[i].metaSnap = meta


\* The sync in the slot found no record for its key when it read the store,
\* and is awaiting its send or the edit of the message it created.
FirstTime(hr) ==
    /\ hr.entry = "sync" /\ hr.pc \in {"send", "edit"}
    /\ hr.metaSnap[hr.metaKey] = NoMsg /\ ~hr.fx.fetchFailed

\* C21, as claimed: two interleaved syncs of one key that had no stored
\* message create at most one message for the key, and when both are at
\* their edit they hold that same message.
C21_OneMessageForInterleavedFirstSyncs ==
    \A i, j \in Slots :
        (i # j /\ FirstTime(h[i]) /\ FirstTime(h[j]) /\ h[i].metaKey = h[j].metaKey) =>
            /\ Cardinality(MsgsOf(h[i].metaKey)) <= 1
            /\ (h[i].pc = "edit" /\ h[j].pc = "edit") => h[i].msg = h[j].msg


\* The sync in the slot has replied with its counts.
SyncCompleted(hr) == hr.entry = "sync" /\ hr.pc = "done" /\ hr.deferred /\ hr.err = Null

\* C22, as claimed: once the interleaved first-time syncs of two different
\* tenants have both completed, the store names, for the key of every
\* message created, that message.
C22_NoRecordLost ==
    \A i, j \in Slots :
        (i # j /\ SyncCompleted(h[i]) /\ SyncCompleted(h[j]) /\ h[i].guildId # h[j].guildId) =>
            \A m \in 1..Len(msgs) : meta[msgs[m].key] = m

=============================================================================
